---- MODULE Spec2Model ----
(***************************************************************************)
(* The firestore-indexes lint rule (Q42/eslint-plugin-firestore-indexes).  *)
(*                                                                         *)
(* One rule instance is created per linted file: create() loads the index  *)
(* manifest and returns a CallExpression visitor, which the host calls     *)
(* once per call-expression node of the file.  The model keeps the linted  *)
(* file as a sequence of call-expression nodes (the nodes the host will    *)
(* hand to the visitor, in document order) and the on-disk manifest file.  *)
(* Its actions are the visitor handling the next node, and the host        *)
(* creating the rule anew for the next file once a file is done.           *)
(*                                                                         *)
(* JavaScript strings are sequences of one-character strings, so that the  *)
(* string operations of the rule (suffix tests, replace, concatenation,    *)
(* join) are computed and not assumed.                                     *)
(***************************************************************************)
EXTENDS Naturals, Sequences, FiniteSets, TLC

VARIABLES
    indexFile,        \* the manifest file on disk, as create() finds it
    indexes,          \* `indexes`: the loaded manifest (part_001:49-63)
    file,             \* the call-expression nodes of the linted file
    pos,              \* how many of them the host has handed to the visitor
    reportedQueries,  \* `reportedQueries`: the deduplication set (part_001:374)
    reports,          \* the diagnostics given to context.report, in order
    trace,            \* per visited node, what the handler did (observation)
    passes            \* the finished passes: their file, diagnostics and trace

vars == <<indexFile, indexes, file, pos, reportedQueries, reports, trace, passes>>

-----------------------------------------------------------------------------
(* Bounds of the model.                                                    *)

\* predicate-producing calls per chain, after the root call
MaxPreds == 2
\* call-expression nodes per linted file in the pass-level specification
MaxCalls == 2
\* passes (files linted one after the other) in the pass-level specification
MaxPasses == 2
\* field entries per declared index
MaxIndexFields == 2

-----------------------------------------------------------------------------
(* JavaScript values.                                                      *)

\* null and undefined: one-element sequences no string can equal, since every
\* element of a string is a one-character string
Null == <<"null">>
Undefined == <<"undefined">>

\* truthiness of a value that is a string, null or undefined
Truthy(v) == v # Null /\ v # Undefined /\ v # <<>>

EndsWith(s, suffix) ==
    /\ Len(s) >= Len(suffix)
    /\ SubSeq(s, Len(s) - Len(suffix) + 1, Len(s)) = suffix

\* s.replace(/suffix$/, '')
StripSuffix(s, suffix) ==
    IF EndsWith(s, suffix) THEN SubSeq(s, 1, Len(s) - Len(suffix)) ELSE s

UpperCase == <<"A","B","C","D","E","F","G","H","I","J","K","L","M",
               "N","O","P","Q","R","S","T","U","V","W","X","Y","Z">>
LowerCase == <<"a","b","c","d","e","f","g","h","i","j","k","l","m",
               "n","o","p","q","r","s","t","u","v","w","x","y","z">>

\* c.toLowerCase() of one character
ToLowerCase(c) ==
    IF \E i \in 1..Len(UpperCase) : UpperCase[i] = c
    THEN LowerCase[CHOOSE i \in 1..Len(UpperCase) : UpperCase[i] = c]
    ELSE c

RECURSIVE Join(_, _)
\* parts.join(sep)
Join(parts, sep) ==
    IF parts = <<>> THEN <<>>
    ELSE IF Len(parts) = 1 THEN parts[1]
    ELSE parts[1] \o sep \o Join(Tail(parts), sep)

\* array.includes(x)
Includes(s, x) == \E i \in 1..Len(s) : s[i] = x

\* array.push(item) in the place of array.unshift(item)
Unshift_Push(array, item) == Append(array, item)

\* array.unshift(item)
Unshift(array, item) == <<item>> \o array

-----------------------------------------------------------------------------
(* String literals of the rule.                                            *)

S_where == <<"w","h","e","r","e">>
S_orderBy == <<"o","r","d","e","r","B","y">>
S_collection == <<"c","o","l","l","e","c","t","i","o","n">>
S_collectionGroup == S_collection \o <<"G","r","o","u","p">>
S_limit == <<"l","i","m","i","t">>
S_offset == <<"o","f","f","s","e","t">>
S_startAt == <<"s","t","a","r","t","A","t">>
S_startAfter == <<"s","t","a","r","t","A","f","t","e","r">>
S_endAt == <<"e","n","d","A","t">>
S_endBefore == <<"e","n","d","B","e","f","o","r","e">>
S_get == <<"g","e","t">>
S_onSnapshot == <<"o","n","S","n","a","p","s","h","o","t">>
S_count == <<"c","o","u","n","t">>
S_CollRef == <<"C","o","l","l","R","e","f">>
S_CollectionRef == <<"C","o","l","l","e","c","t","i","o","n","R","e","f">>
S_Ref == <<"R","e","f">>
S_unknown == <<"u","n","k","n","o","w","n">>
S_eq == <<"=","=">>
S_lt == <<"<">>
S_le == <<"<","=">>
S_gt == <<">">>
S_ge == <<">","=">>
S_arrayContains == <<"a","r","r","a","y","-","c","o","n","t","a","i","n","s">>
S_arrayContainsAny == S_arrayContains \o <<"-","a","n","y">>
S_name == <<"_","_","n","a","m","e","_","_">>
S_desc == <<"d","e","s","c">>
S_s == <<"s">>

\* options.indexesPath || 'indexes.json'
indexesPath == "indexes.json"

-----------------------------------------------------------------------------
(* Index merging (part_001:92-153).  A query field is a record             *)
(* [field, operator, order]; order is "undefined" on a where() entry.      *)

IsEquality(f) == f.operator = S_eq
IsInequality(f) == f.operator \in {S_lt, S_le, S_gt, S_ge}
IsOrderBy(f) == f.operator = S_orderBy
IsArrayContains(f) == f.operator \in {S_arrayContains, S_arrayContainsAny}
\* queryFields.map(f => f.field)
FieldsOf(queryFields) == [i \in 1..Len(queryFields) |-> queryFields[i].field]

\* canUseIndexMerging accepting several inequalities on one field with an
\* orderBy on any field
canUseIndexMerging_SharedFieldAnyOrder(queryFields) ==
    LET equalityFilters == SelectSeq(queryFields, IsEquality)
        inequalityFilters == SelectSeq(queryFields, IsInequality)
        orderByFields == SelectSeq(queryFields, IsOrderBy)
        arrayContainsFilters == SelectSeq(queryFields, IsArrayContains)
        inequalityFieldNames == FieldsOf(inequalityFilters)
        uniqueFields == {inequalityFieldNames[i] : i \in 1..Len(inequalityFieldNames)}
    IN  IF Len(arrayContainsFilters) > 0 THEN FALSE
        ELSE IF Len(orderByFields) > 1 THEN FALSE
        ELSE IF Len(inequalityFilters) > 1
             THEN IF Cardinality(uniqueFields) > 1 THEN FALSE
                  ELSE TRUE
        ELSE IF Len(inequalityFilters) = 1 /\ Len(orderByFields) = 1
             THEN inequalityFilters[1].field = orderByFields[1].field
        ELSE IF Len(queryFields) = Len(equalityFilters) THEN TRUE
        ELSE IF Len(inequalityFilters) = 1 /\ Len(orderByFields) = 0 THEN TRUE
        ELSE IF Len(orderByFields) = 1 /\ Len(inequalityFilters) = 0 THEN TRUE
        ELSE FALSE

\* canUseIndexMerging without its all-equality case
canUseIndexMerging_NoAllEquality(queryFields) ==
    LET inequalityFilters == SelectSeq(queryFields, IsInequality)
        orderByFields == SelectSeq(queryFields, IsOrderBy)
        arrayContainsFilters == SelectSeq(queryFields, IsArrayContains)
        inequalityFieldNames == FieldsOf(inequalityFilters)
        uniqueFields == {inequalityFieldNames[i] : i \in 1..Len(inequalityFieldNames)}
    IN  IF Len(arrayContainsFilters) > 0 THEN FALSE
        ELSE IF Len(orderByFields) > 1 THEN FALSE
        ELSE IF Len(inequalityFilters) > 1
             THEN IF Cardinality(uniqueFields) > 1 THEN FALSE
                  ELSE IF Len(orderByFields) = 0 THEN TRUE
                  ELSE inequalityFieldNames[1] = orderByFields[1].field
        ELSE IF Len(inequalityFilters) = 1 /\ Len(orderByFields) = 1
             THEN inequalityFilters[1].field = orderByFields[1].field
        ELSE IF Len(inequalityFilters) = 1 /\ Len(orderByFields) = 0 THEN TRUE
        ELSE IF Len(orderByFields) = 1 /\ Len(inequalityFilters) = 0 THEN TRUE
        ELSE FALSE

\* canUseIndexMerging without the test that several inequalities share a field
canUseIndexMerging_AnyInequalities(queryFields) ==
    LET equalityFilters == SelectSeq(queryFields, IsEquality)
        inequalityFilters == SelectSeq(queryFields, IsInequality)
        orderByFields == SelectSeq(queryFields, IsOrderBy)
        arrayContainsFilters == SelectSeq(queryFields, IsArrayContains)
        inequalityFieldNames == FieldsOf(inequalityFilters)
    IN  IF Len(arrayContainsFilters) > 0 THEN FALSE
        ELSE IF Len(orderByFields) > 1 THEN FALSE
        ELSE IF Len(inequalityFilters) > 1
             THEN IF Len(orderByFields) = 0 THEN TRUE
                  ELSE inequalityFieldNames[1] = orderByFields[1].field
        ELSE IF Len(inequalityFilters) = 1 /\ Len(orderByFields) = 1
             THEN inequalityFilters[1].field = orderByFields[1].field
        ELSE IF Len(queryFields) = Len(equalityFilters) THEN TRUE
        ELSE IF Len(inequalityFilters) = 1 /\ Len(orderByFields) = 0 THEN TRUE
        ELSE IF Len(orderByFields) = 1 /\ Len(inequalityFilters) = 0 THEN TRUE
        ELSE FALSE

\* canUseIndexMerging accepting one inequality with one orderBy on any fields
canUseIndexMerging_AnyOrderField(queryFields) ==
    LET equalityFilters == SelectSeq(queryFields, IsEquality)
        inequalityFilters == SelectSeq(queryFields, IsInequality)
        orderByFields == SelectSeq(queryFields, IsOrderBy)
        arrayContainsFilters == SelectSeq(queryFields, IsArrayContains)
        inequalityFieldNames == FieldsOf(inequalityFilters)
        uniqueFields == {inequalityFieldNames[i] : i \in 1..Len(inequalityFieldNames)}
    IN  IF Len(arrayContainsFilters) > 0 THEN FALSE
        ELSE IF Len(orderByFields) > 1 THEN FALSE
        ELSE IF Len(inequalityFilters) > 1
             THEN IF Cardinality(uniqueFields) > 1 THEN FALSE
                  ELSE IF Len(orderByFields) = 0 THEN TRUE
                  ELSE inequalityFieldNames[1] = orderByFields[1].field
        ELSE IF Len(inequalityFilters) = 1 /\ Len(orderByFields) = 1 THEN TRUE
        ELSE IF Len(queryFields) = Len(equalityFilters) THEN TRUE
        ELSE IF Len(inequalityFilters) = 1 /\ Len(orderByFields) = 0 THEN TRUE
        ELSE IF Len(orderByFields) = 1 /\ Len(inequalityFilters) = 0 THEN TRUE
        ELSE FALSE

\* canUseIndexMerging without the test for array-contains filters
canUseIndexMerging_NoArrayContainsTest(queryFields) ==
    LET equalityFilters == SelectSeq(queryFields, IsEquality)
        inequalityFilters == SelectSeq(queryFields, IsInequality)
        orderByFields == SelectSeq(queryFields, IsOrderBy)
        inequalityFieldNames == FieldsOf(inequalityFilters)
        uniqueFields == {inequalityFieldNames[i] : i \in 1..Len(inequalityFieldNames)}
    IN  IF Len(orderByFields) > 1 THEN FALSE
        ELSE IF Len(inequalityFilters) > 1
             THEN IF Cardinality(uniqueFields) > 1 THEN FALSE
                  ELSE IF Len(orderByFields) = 0 THEN TRUE
                  ELSE inequalityFieldNames[1] = orderByFields[1].field
        ELSE IF Len(inequalityFilters) = 1 /\ Len(orderByFields) = 1
             THEN inequalityFilters[1].field = orderByFields[1].field
        ELSE IF Len(queryFields) = Len(equalityFilters) THEN TRUE
        ELSE IF Len(inequalityFilters) = 1 /\ Len(orderByFields) = 0 THEN TRUE
        ELSE IF Len(orderByFields) = 1 /\ Len(inequalityFilters) = 0 THEN TRUE
        ELSE FALSE

canUseIndexMerging(queryFields) ==
    LET equalityFilters == SelectSeq(queryFields, IsEquality)
        inequalityFilters == SelectSeq(queryFields, IsInequality)
        orderByFields == SelectSeq(queryFields, IsOrderBy)
        arrayContainsFilters == SelectSeq(queryFields, IsArrayContains)
        inequalityFieldNames == FieldsOf(inequalityFilters)
        uniqueFields == {inequalityFieldNames[i] : i \in 1..Len(inequalityFieldNames)}
    IN  IF Len(arrayContainsFilters) > 0 THEN FALSE
        ELSE IF Len(orderByFields) > 1 THEN FALSE
        ELSE IF Len(inequalityFilters) > 1
             THEN IF Cardinality(uniqueFields) > 1 THEN FALSE
                  ELSE IF Len(orderByFields) = 0 THEN TRUE
                  ELSE inequalityFieldNames[1] = orderByFields[1].field
        ELSE IF Len(inequalityFilters) = 1 /\ Len(orderByFields) = 1
             THEN inequalityFilters[1].field = orderByFields[1].field
        ELSE IF Len(queryFields) = Len(equalityFilters) THEN TRUE
        ELSE IF Len(inequalityFilters) = 1 /\ Len(orderByFields) = 0 THEN TRUE
        ELSE IF Len(orderByFields) = 1 /\ Len(inequalityFilters) = 0 THEN TRUE
        ELSE FALSE

-----------------------------------------------------------------------------
(* Composite index match: the callback of indexes.indexes.some             *)
(* (part_001:174-281).  An index is a record [collectionGroup,             *)
(* collectionId, fields]; an index field is [fieldPath, order,             *)
(* arrayConfig], with "undefined" for an absent order or arrayConfig.      *)

\* equalityRunEnd taking an index field into the run only where it is the
\* equality field the query names at the same position
equalityRunEnd_InShapeOrder(relevantIndexFields, equalityFieldNames, indexPos) ==
    indexPos + Cardinality(
        {k \in 1..Len(relevantIndexFields) :
            \A i \in 1..k :
                /\ i <= Len(equalityFieldNames)
                /\ relevantIndexFields[i].fieldPath = equalityFieldNames[i]})

RECURSIVE equalityRunEnd(_, _, _)
\* the while loop of part_001:245-262: the value of indexPos when it ends,
\* started at indexPos
equalityRunEnd(relevantIndexFields, equalityFieldNames, indexPos) ==
    IF indexPos < Len(relevantIndexFields)
    THEN LET indexFieldDef == relevantIndexFields[indexPos + 1]
             indexField == indexFieldDef.fieldPath
             isEqualityField == \/ indexFieldDef.arrayConfig = "CONTAINS"
                                \/ Includes(equalityFieldNames, indexField)
         IN  IF isEqualityField
             THEN equalityRunEnd(relevantIndexFields, equalityFieldNames, indexPos + 1)
             ELSE indexPos
    ELSE indexPos

\* rangeFieldsMatch asking only that the index names every range field
\* somewhere at or after indexPos
rangeFieldsMatch_AnyPosition(indexFieldNames, rangeFields, indexPos) ==
    \A k \in 1..Len(rangeFields) :
        \E i \in (indexPos + 1)..Len(indexFieldNames) :
            indexFieldNames[i] = rangeFields[k]

RECURSIVE rangeFieldsMatch(_, _, _)
\* the for loop of part_001:273-278, started at indexPos
rangeFieldsMatch(indexFieldNames, rangeFields, indexPos) ==
    IF rangeFields = <<>> THEN TRUE
    ELSE IF \/ indexPos >= Len(indexFieldNames)
            \/ indexFieldNames[indexPos + 1] # Head(rangeFields)
         THEN FALSE
         ELSE rangeFieldsMatch(indexFieldNames, Tail(rangeFields), indexPos + 1)

\* arrayConfigOk asking only that the index names the field
arrayConfigOk_FieldOnly(relevantIndexFields, arrayContainsQueryFields) ==
    \A k \in 1..Len(arrayContainsQueryFields) :
        \E i \in 1..Len(relevantIndexFields) :
            relevantIndexFields[i].fieldPath = arrayContainsQueryFields[k].field

\* part_001:207-212: every array-contains field is found in the index, and the
\* first index field of that name has arrayConfig CONTAINS
arrayConfigOk(relevantIndexFields, arrayContainsQueryFields) ==
    \A k \in 1..Len(arrayContainsQueryFields) :
        LET found == {i \in 1..Len(relevantIndexFields) :
                        relevantIndexFields[i].fieldPath = arrayContainsQueryFields[k].field}
        IN  /\ found # {}
            /\ LET first == CHOOSE i \in found : \A j \in found : i <= j
               IN  relevantIndexFields[first].arrayConfig = "CONTAINS"

\* the filter keeping every index field
IsNotName_KeepsAll(f) == TRUE

IsNotName(f) == f.fieldPath # S_name
\* relevantIndexFields.map(f => f.fieldPath)
FieldPathsOf(indexFields) == [i \in 1..Len(indexFields) |-> indexFields[i].fieldPath]

\* indexMatches asking only that the index names every field of the query
indexMatches_FieldsIncluded(index, collection, queryFields) ==
    IF index.collectionGroup # collection /\ index.collectionId # collection
    THEN FALSE
    ELSE \A i \in 1..Len(queryFields) :
            Includes(FieldPathsOf(index.fields), queryFields[i].field)

indexMatches(index, collection, queryFields) ==
    IF index.collectionGroup # collection /\ index.collectionId # collection
    THEN FALSE
    ELSE IF Len(queryFields) = 0 THEN TRUE
    ELSE
    LET indexFields == index.fields
        relevantIndexFields == SelectSeq(indexFields, IsNotName)
        equalityQueryFields == SelectSeq(queryFields, IsEquality)
        inequalityQueryFields == SelectSeq(queryFields, IsInequality)
        orderByQueryFields == SelectSeq(queryFields, IsOrderBy)
        arrayContainsQueryFields == SelectSeq(queryFields, IsArrayContains)
        equalityFieldNames == FieldsOf(equalityQueryFields)
                                \o FieldsOf(arrayContainsQueryFields)
        inequalityFieldNames == FieldsOf(inequalityQueryFields)
        orderByFieldNames == FieldsOf(orderByQueryFields)
        indexFieldNames == FieldPathsOf(relevantIndexFields)
        allQueryFields == equalityFieldNames \o inequalityFieldNames \o orderByFieldNames
        indexPos == equalityRunEnd(relevantIndexFields, equalityFieldNames, 0)
        indexEqualityFields == {indexFieldNames[i] : i \in 1..indexPos}
        rangeFields == inequalityFieldNames \o orderByFieldNames
    IN  IF ~arrayConfigOk(relevantIndexFields, arrayContainsQueryFields) THEN FALSE
        ELSE IF ~(\A i \in 1..Len(allQueryFields) :
                    Includes(indexFieldNames, allQueryFields[i])) THEN FALSE
        ELSE IF ~(\A i \in 1..Len(equalityFieldNames) :
                    equalityFieldNames[i] \in indexEqualityFields) THEN FALSE
        ELSE rangeFieldsMatch(indexFieldNames, rangeFields, indexPos)

\* part_001:174: indexes.indexes.some(...)
compositeMatch(collection, queryFields) ==
    \E i \in 1..Len(indexes.indexes) :
        indexMatches(indexes.indexes[i], collection, queryFields)

\* part_001:161-293.  The loaded manifest is [isNull, hasIndexes, indexes]:
\* isNull when the file holds JSON null, hasIndexes when the parsed object has
\* an `indexes` list.
hasIndex(collection, queryFields) ==
    IF indexes.isNull \/ ~indexes.hasIndexes THEN FALSE
    ELSE IF canUseIndexMerging(queryFields) THEN TRUE
    ELSE compositeMatch(collection, queryFields)

-----------------------------------------------------------------------------
(* Syntax tree.  A call expression is [calleeType, method, arguments]:     *)
(* calleeType is node.callee.type, method is node.callee.property.name     *)
(* (Undefined when the callee is no member expression), an argument is     *)
(* [type, value].  A chain is the sequence of its calls from the leftmost  *)
(* to the rightmost: the receiver (callee.object) of call i is call i-1,   *)
(* and the receiver of call 1 is a node that is no call expression.        *)

Literal(v) == [type |-> "Literal", value |-> v]
Identifier == [type |-> "Identifier", value |-> Undefined]
MemberCall(method, arguments) ==
    [calleeType |-> "MemberExpression", method |-> method, arguments |-> arguments]
PlainCall(arguments) ==
    [calleeType |-> "Identifier", method |-> Undefined, arguments |-> arguments]

PaginationMethods ==
    {S_limit, S_offset, S_startAt, S_startAfter, S_endAt, S_endBefore}

\* part_001:350-359: the collection named by a custom collection reference
customCollection(methodName) ==
    LET collectionName ==
            StripSuffix(StripSuffix(StripSuffix(methodName, S_CollRef),
                                    S_CollectionRef), S_Ref)
        lowered == IF collectionName = <<>> THEN <<>>
                   ELSE <<ToLowerCase(collectionName[1])>> \o Tail(collectionName)
    IN  IF EndsWith(lowered, S_s) THEN lowered ELSE lowered \o S_s

\* part_001:332-334
directionOf(arguments) ==
    IF Len(arguments) >= 2 /\ arguments[2].type = "Literal"
    THEN (IF arguments[2].value = S_desc THEN "DESCENDING" ELSE "ASCENDING")
    ELSE "ASCENDING"

RECURSIVE walkChain_StopsAtPagination(_, _, _)
\* walkChain ending the walk at a pagination method
walkChain_StopsAtPagination(chain, i, queryFields) ==
    IF i = 0 THEN [collection |-> Null, queryFields |-> queryFields]
    ELSE
    LET currentNode == chain[i]
        methodName == currentNode.method
        arguments == currentNode.arguments
    IN  IF currentNode.calleeType # "MemberExpression"
        THEN [collection |-> Null, queryFields |-> queryFields]
        ELSE IF methodName \in PaginationMethods
        THEN [collection |-> Null, queryFields |-> queryFields]
        ELSE IF methodName = S_where /\ Len(arguments) >= 2
        THEN IF arguments[1].type = "Literal"
             THEN walkChain_StopsAtPagination(chain, i - 1,
                    Unshift(queryFields,
                        [field |-> arguments[1].value,
                         operator |-> IF arguments[2].type = "Literal"
                                      THEN arguments[2].value ELSE S_unknown,
                         order |-> "undefined"]))
             ELSE walkChain_StopsAtPagination(chain, i - 1, queryFields)
        ELSE IF methodName = S_orderBy /\ Len(arguments) >= 1
        THEN IF arguments[1].type = "Literal"
             THEN walkChain_StopsAtPagination(chain, i - 1,
                    Unshift(queryFields,
                        [field |-> arguments[1].value,
                         operator |-> S_orderBy,
                         order |-> directionOf(arguments)]))
             ELSE walkChain_StopsAtPagination(chain, i - 1, queryFields)
        ELSE IF methodName \in {S_collection, S_collectionGroup} /\ Len(arguments) > 0
        THEN [collection |-> IF arguments[1].type = "Literal"
                             THEN arguments[1].value ELSE Null,
              queryFields |-> queryFields]
        ELSE IF \/ EndsWith(methodName, S_CollRef)
                \/ EndsWith(methodName, S_CollectionRef)
                \/ EndsWith(methodName, S_Ref)
        THEN [collection |-> customCollection(methodName), queryFields |-> queryFields]
        ELSE walkChain_StopsAtPagination(chain, i - 1, queryFields)

RECURSIVE walkChain(_, _, _)
\* the loop of part_001:305-368 with currentNode = chain[i] (i = 0: the node
\* left of the first call, which is no call expression) and the query fields
\* collected so far; `collection` is still null whenever the loop continues
walkChain(chain, i, queryFields) ==
    IF i = 0 THEN [collection |-> Null, queryFields |-> queryFields]
    ELSE
    LET currentNode == chain[i]
        methodName == currentNode.method
        arguments == currentNode.arguments
    IN  IF currentNode.calleeType # "MemberExpression"
        THEN [collection |-> Null, queryFields |-> queryFields]
        ELSE IF methodName \in PaginationMethods
        THEN walkChain(chain, i - 1, queryFields)
        ELSE IF methodName = S_where /\ Len(arguments) >= 2
        THEN IF arguments[1].type = "Literal"
             THEN walkChain(chain, i - 1,
                    Unshift(queryFields,
                        [field |-> arguments[1].value,
                         operator |-> IF arguments[2].type = "Literal"
                                      THEN arguments[2].value ELSE S_unknown,
                         order |-> "undefined"]))
             ELSE walkChain(chain, i - 1, queryFields)
        ELSE IF methodName = S_orderBy /\ Len(arguments) >= 1
        THEN IF arguments[1].type = "Literal"
             THEN walkChain(chain, i - 1,
                    Unshift(queryFields,
                        [field |-> arguments[1].value,
                         operator |-> S_orderBy,
                         order |-> directionOf(arguments)]))
             ELSE walkChain(chain, i - 1, queryFields)
        ELSE IF methodName \in {S_collection, S_collectionGroup} /\ Len(arguments) > 0
        THEN [collection |-> IF arguments[1].type = "Literal"
                             THEN arguments[1].value ELSE Null,
              queryFields |-> queryFields]
        ELSE IF \/ EndsWith(methodName, S_CollRef)
                \/ EndsWith(methodName, S_CollectionRef)
                \/ EndsWith(methodName, S_Ref)
        THEN [collection |-> customCollection(methodName), queryFields |-> queryFields]
        ELSE walkChain(chain, i - 1, queryFields)

\* part_001:299-371
analyzeCallChain(chain) == walkChain(chain, Len(chain), <<>>)

\* part_001:305-368: the loop leaves at this call (break) instead of moving
\* to its receiver
walkBreaksAt(currentNode) ==
    IF currentNode.calleeType # "MemberExpression" THEN TRUE
    ELSE IF currentNode.method \in PaginationMethods THEN FALSE
    ELSE IF currentNode.method = S_where /\ Len(currentNode.arguments) >= 2
    THEN FALSE
    ELSE IF currentNode.method = S_orderBy /\ Len(currentNode.arguments) >= 1
    THEN FALSE
    ELSE IF /\ currentNode.method \in {S_collection, S_collectionGroup}
            /\ Len(currentNode.arguments) > 0
    THEN TRUE
    ELSE \/ EndsWith(currentNode.method, S_CollRef)
         \/ EndsWith(currentNode.method, S_CollectionRef)
         \/ EndsWith(currentNode.method, S_Ref)

RECURSIVE walkIterations_PaginationStays(_, _, _)
\* walkIterations with the loop staying on a pagination call
walkIterations_PaginationStays(chain, i, fuel) ==
    IF i = 0 \/ fuel = 0 THEN 0
    ELSE IF walkBreaksAt(chain[i]) THEN 1
    ELSE IF chain[i].method \in PaginationMethods
    THEN 1 + walkIterations_PaginationStays(chain, i, fuel - 1)
    ELSE 1 + walkIterations_PaginationStays(chain, i - 1, fuel - 1)

RECURSIVE walkIterations(_, _, _)
\* part_001:305-368: the number of iterations of the while loop started at
\* call i of the chain, counted up to fuel; the node left of call 1 is no
\* call expression
walkIterations(chain, i, fuel) ==
    IF i = 0 \/ fuel = 0 THEN 0
    ELSE IF walkBreaksAt(chain[i]) THEN 1
    ELSE 1 + walkIterations(chain, i - 1, fuel - 1)

-----------------------------------------------------------------------------
(* The visitor (part_001:376-409).                                         *)

\* the key parts carrying the direction of an orderBy too
KeyParts_WithDirection(queryFields) ==
    [i \in 1..Len(queryFields) |->
        queryFields[i].field \o <<":">> \o queryFields[i].operator
            \o (IF queryFields[i].order = "DESCENDING" THEN S_desc ELSE <<>>)]

\* the key parts built from the field names alone
KeyParts_FieldOnly(queryFields) ==
    [i \in 1..Len(queryFields) |-> queryFields[i].field]

\* queryFields.map(f => `${f.field}:${f.operator}`)
KeyParts(queryFields) ==
    [i \in 1..Len(queryFields) |->
        queryFields[i].field \o <<":">> \o queryFields[i].operator]
\* queryFields.map(f => `${f.field} (${f.operator})`)
FilterParts(queryFields) ==
    [i \in 1..Len(queryFields) |->
        queryFields[i].field \o <<" ", "(">> \o queryFields[i].operator \o <<")">>]

\* part_001:391
queryKeyOf(collection, queryFields) ==
    collection \o <<":">> \o Join(KeyParts(queryFields), <<",">>)

\* part_001:395
filtersOf(queryFields) == Join(FilterParts(queryFields), <<",", " ">>)

\* part_001:380-385
isTerminalCall(node) ==
    /\ node.calleeType = "MemberExpression"
    /\ node.method \in {S_get, S_onSnapshot, S_count}

\* the threshold taken at one predicate
needsIndexCheck_OnePredicate(collection, queryFields) ==
    /\ Truthy(collection)
    /\ \/ Len(queryFields) >= 1
       \/ \E i \in 1..Len(queryFields) : queryFields[i].operator = S_orderBy

\* the threshold without the test of the collection
needsIndexCheck_AnyCollection(collection, queryFields) ==
    \/ Len(queryFields) > 1
    \/ \E i \in 1..Len(queryFields) : queryFields[i].operator = S_orderBy

\* part_001:389
needsIndexCheck(collection, queryFields) ==
    /\ Truthy(collection)
    /\ \/ Len(queryFields) > 1
       \/ \E i \in 1..Len(queryFields) : queryFields[i].operator = S_orderBy

\* the deduplication set never consulted
alreadyReported_Never(queryKey) == FALSE

\* part_001:393: reportedQueries.has(queryKey)
alreadyReported(queryKey) == queryKey \in reportedQueries

\* What the handler does with node number n of the file, in the current state:
\* the extracted shape, whether hasIndex was called, whether it reported.
handle(n) ==
    LET expr == file[n]
        node == expr[Len(expr)]
        terminal == isTerminalCall(node)
        shape == IF terminal THEN analyzeCallChain(SubSeq(expr, 1, Len(expr) - 1))
                 ELSE [collection |-> Null, queryFields |-> <<>>]
        checked == terminal /\ needsIndexCheck(shape.collection, shape.queryFields)
        queryKey == IF checked THEN queryKeyOf(shape.collection, shape.queryFields)
                    ELSE <<>>
        seen == checked /\ alreadyReported(queryKey)
        matcherCalled == checked /\ ~seen
        missing == matcherCalled /\ ~hasIndex(shape.collection, shape.queryFields)
    IN  [node |-> n, terminal |-> terminal,
         collection |-> shape.collection, queryFields |-> shape.queryFields,
         checked |-> checked, queryKey |-> queryKey, seen |-> seen,
         matcherCalled |-> matcherCalled, reported |-> missing]

\* the handler adding the key of every checked shape to the set
CallExpression_AddsEveryCheckedKey ==
    /\ pos < Len(file)
    /\ LET h == handle(pos + 1)
       IN  /\ pos' = pos + 1
           /\ trace' = Append(trace, h)
           /\ reportedQueries' = IF h.checked THEN reportedQueries \cup {h.queryKey}
                                 ELSE reportedQueries
           /\ IF h.reported
              THEN reports' = Append(reports,
                         [node |-> h.node, messageId |-> "missingIndex",
                          collection |-> h.collection,
                          filters |-> filtersOf(h.queryFields),
                          indexesPath |-> indexesPath])
              ELSE UNCHANGED reports
    /\ UNCHANGED <<indexFile, indexes, file, passes>>

CallExpression ==
    /\ pos < Len(file)
    /\ LET h == handle(pos + 1)
       IN  /\ pos' = pos + 1
           /\ trace' = Append(trace, h)
           /\ IF h.reported
              THEN /\ reportedQueries' = reportedQueries \cup {h.queryKey}
                   /\ reports' = Append(reports,
                         [node |-> h.node, messageId |-> "missingIndex",
                          collection |-> h.collection,
                          filters |-> filtersOf(h.queryFields),
                          indexesPath |-> indexesPath])
              ELSE UNCHANGED <<reportedQueries, reports>>
    /\ UNCHANGED <<indexFile, indexes, file, passes>>

-----------------------------------------------------------------------------
(* Loading the manifest (part_001:49-74).  The file on disk is             *)
(* [exists, readable, parses, value]: readFileSync throws unless the file  *)
(* exists and is readable, JSON.parse throws unless its content parses,    *)
(* and value is what JSON.parse returns then.                              *)

EmptyManifest == [isNull |-> FALSE, hasIndexes |-> TRUE, indexes |-> <<>>]
NullManifest == [isNull |-> TRUE, hasIndexes |-> FALSE, indexes |-> <<>>]

\* loadIndexes leaving `indexes` null when the file cannot be read
loadIndexes_NullWhenUnread(f) ==
    IF f.exists /\ f.readable
    THEN (IF f.parses THEN f.value ELSE EmptyManifest)
    ELSE NullManifest

\* part_001:57-63: readFileSync or JSON.parse throwing is caught by the inner
\* catch, which sets { indexes: [] }
loadIndexes(f) ==
    IF f.exists /\ f.readable /\ f.parses THEN f.value ELSE EmptyManifest

\* part_001:64-74: the diagnostics of create().  The outer catch is reached
\* only by an error of getCwd or path.resolve (lines 53-54), which the file
\* on disk does not cause: every error of reading or parsing is caught at
\* line 60.
createReports(f) == <<>>

\* the files the host lints after file f: f again, or a file holding one of
\* its call expressions
NextFiles(f) == {f} \cup {<<f[i]>> : i \in 1..Len(f)}

\* create() called for the next file while the deduplication set of the
\* finished pass is kept
create_KeepsReportedQueries ==
    /\ pos = Len(file)
    /\ Len(passes) + 1 < MaxPasses
    /\ passes' = Append(passes, [file |-> file, reports |-> reports, trace |-> trace])
    /\ file' \in NextFiles(file)
    /\ indexes' = loadIndexes(indexFile)
    /\ reports' = createReports(indexFile)
    /\ pos' = 0
    /\ trace' = <<>>
    /\ UNCHANGED <<indexFile, reportedQueries>>

\* part_001:45-376: the host is done with a file and creates the rule for the
\* next one: the manifest is loaded again and a new reportedQueries set is made
create ==
    /\ pos = Len(file)
    /\ Len(passes) + 1 < MaxPasses
    /\ passes' = Append(passes, [file |-> file, reports |-> reports, trace |-> trace])
    /\ file' \in NextFiles(file)
    /\ indexes' = loadIndexes(indexFile)
    /\ reportedQueries' = {}
    /\ reports' = createReports(indexFile)
    /\ pos' = 0
    /\ trace' = <<>>
    /\ UNCHANGED indexFile

Next == CallExpression \/ create

-----------------------------------------------------------------------------
(* The inputs: manifest files and linted files.                            *)

SeqsUpTo(S, n) == UNION {[1..k -> S] : k \in 0..n}

S_users == <<"u","s","e","r","s">>
S_orders == <<"o","r","d","e","r","s">>
S_a == <<"a">>
S_b == <<"b">>
Fields == {S_a, S_b}

IndexField(fieldPath, arrayConfig) ==
    [fieldPath |-> fieldPath, order |-> "ASCENDING", arrayConfig |-> arrayConfig]
Index(collectionGroup, collectionId, fields) ==
    [collectionGroup |-> collectionGroup, collectionId |-> collectionId,
     fields |-> fields]

IndexFieldSpecs ==
    {IndexField(f, c) : f \in Fields, c \in {"undefined", "CONTAINS"}}
        \cup {IndexField(S_name, "undefined")}
FieldLists == SeqsUpTo(IndexFieldSpecs, MaxIndexFields)
FewFieldLists ==
    {<<IndexField(S_a, "undefined"), IndexField(S_b, "undefined")>>,
     <<IndexField(S_b, "CONTAINS"), IndexField(S_a, "undefined")>>}

UsersIndexes == {Index(S_users, Undefined, fl) : fl \in FieldLists}
OtherIndexes ==
    {Index(Undefined, S_users, fl) : fl \in FewFieldLists}
        \cup {Index(S_orders, Undefined, fl) : fl \in FewFieldLists}
IndexLists ==
    {<<>>} \cup {<<i>> : i \in UsersIndexes \cup OtherIndexes}
           \cup {<<u, i>> : u \in OtherIndexes,
                            i \in {Index(S_users, Undefined, fl) : fl \in FewFieldLists}}

JsonFile(v) == [exists |-> TRUE, readable |-> TRUE, parses |-> TRUE, value |-> v]
MissingFile ==
    [exists |-> FALSE, readable |-> FALSE, parses |-> FALSE, value |-> EmptyManifest]
UnreadableFile ==
    [exists |-> TRUE, readable |-> FALSE, parses |-> FALSE, value |-> EmptyManifest]
MalformedFile ==
    [exists |-> TRUE, readable |-> TRUE, parses |-> FALSE, value |-> EmptyManifest]
\* the files holding `null` and `{}`
NullFile == JsonFile(NullManifest)
NoIndexesFile == JsonFile([isNull |-> FALSE, hasIndexes |-> FALSE, indexes |-> <<>>])
ManifestFile(list) ==
    JsonFile([isNull |-> FALSE, hasIndexes |-> TRUE, indexes |-> list])

AllManifestFiles ==
    {MissingFile, UnreadableFile, MalformedFile, NullFile, NoIndexesFile}
        \cup {ManifestFile(l) : l \in IndexLists}
FewManifestFiles ==
    {MissingFile, NoIndexesFile}
        \cup {ManifestFile(<<Index(S_users, Undefined, fl)>>) : fl \in FewFieldLists}

\* calls of a chain
Where(f, op) == MemberCall(S_where, <<Literal(f), Literal(op), Identifier>>)
WhereUnknown(f) == MemberCall(S_where, <<Literal(f), Identifier, Identifier>>)
OrderBy(f) == MemberCall(S_orderBy, <<Literal(f)>>)
OrderByDesc(f) == MemberCall(S_orderBy, <<Literal(f), Literal(S_desc)>>)
Collection(c) == MemberCall(S_collection, <<Literal(c)>>)
Get == MemberCall(S_get, <<>>)

\* where() and orderBy() calls that yield a predicate
PredicateCalls ==
    {Where(f, op) : f \in Fields,
                    op \in {S_eq, S_lt, S_arrayContains, S_arrayContainsAny}}
        \cup {Where(S_a, S_gt)}
        \cup {WhereUnknown(f) : f \in Fields}
        \cup {OrderBy(f) : f \in Fields}

\* firestore.collection('users')<predicate calls>.get()
MatchNodes ==
    {<<Collection(S_users)>> \o calls \o <<Get>> :
        calls \in SeqsUpTo(PredicateCalls, MaxPreds)}

\* Matching: the visitor called for one terminal call on a resolved chain,
\* against every manifest
InitMatch ==
    /\ indexFile \in AllManifestFiles
    /\ indexes = loadIndexes(indexFile)
    /\ file \in {<<n>> : n \in MatchNodes}
    /\ pos = 0
    /\ reportedQueries = {}
    /\ reports = createReports(indexFile)
    /\ trace = <<>>
    /\ passes = <<>>

SpecMatch == InitMatch /\ [][CallExpression]_vars

S_templateCollRef == <<"t","e","m","p","l","a","t","e">> \o S_CollRef
S_passportCollectionRef ==
    <<"p","a","s","s","p","o","r","t">> \o S_CollectionRef
S_docRefCollRef == <<"d","o","c">> \o S_Ref \o S_CollRef
S_doc == <<"d","o","c">>
S_then == <<"t","h","e","n">>

OnSnapshot == MemberCall(S_onSnapshot, <<Identifier>>)
Count == MemberCall(S_count, <<>>)
Then == MemberCall(S_then, <<Identifier>>)
Limit == MemberCall(S_limit, <<Identifier>>)
DynamicCollection == MemberCall(S_collection, <<Identifier>>)

\* what a chain can start with: nothing (the receiver of the first call below
\* is a plain identifier), someOtherFunction(), collection('users'),
\* collection(name), collection(''), collectionGroup('users'),
\* templateCollRef(), passportCollectionRef(), docRefCollRef(), doc(id)
ChainRoots ==
    {<<>>, <<PlainCall(<<>>)>>, <<Collection(S_users)>>, <<DynamicCollection>>,
     <<Collection(<<>>)>>, <<MemberCall(S_collectionGroup, <<Literal(S_users)>>)>>,
     <<MemberCall(S_templateCollRef, <<>>)>>,
     <<MemberCall(S_passportCollectionRef, <<>>)>>,
     <<MemberCall(S_docRefCollRef, <<>>)>>, <<MemberCall(S_doc, <<Identifier>>)>>}

\* the calls that follow: where() with literal and non-literal field, where()
\* with one argument, orderBy(), limit(), collection(name)
ChainCalls ==
    {Where(S_a, S_eq), Where(S_b, S_lt), OrderBy(S_a), Limit, DynamicCollection,
     MemberCall(S_where, <<Identifier, Literal(S_eq), Identifier>>),
     MemberCall(S_where, <<Literal(S_a)>>)}

ChainNodes ==
    {root \o calls \o <<last>> :
        root \in ChainRoots, calls \in SeqsUpTo(ChainCalls, MaxPreds),
        last \in {Get, OnSnapshot, Count, Then}}
      \cup {<<PlainCall(<<>>)>>}

\* Extraction: the visitor called for one call expression of any shape,
\* against a few manifests
InitChain ==
    /\ indexFile \in FewManifestFiles
    /\ indexes = loadIndexes(indexFile)
    /\ file \in {<<n>> : n \in ChainNodes}
    /\ pos = 0
    /\ reportedQueries = {}
    /\ reports = createReports(indexFile)
    /\ trace = <<>>
    /\ passes = <<>>

SpecChain == InitChain /\ [][CallExpression]_vars

\* a call of a pagination method
Paginate(method) == MemberCall(method, <<Identifier>>)

\* the calls of a paginated chain: three predicate calls and the six
\* pagination methods
PaginatedCalls ==
    {Where(S_a, S_eq), Where(S_b, S_lt), OrderBy(S_a)}
        \cup {Paginate(m) : m \in PaginationMethods}

PaginatedNodes ==
    {root \o calls \o <<Get>> :
        root \in {<<>>, <<Collection(S_users)>>, <<MemberCall(S_templateCollRef, <<>>)>>},
        calls \in SeqsUpTo(PaginatedCalls, MaxPreds + 1)}

\* Pagination: the visitor called for one terminal call on a chain with
\* pagination calls at any positions, against a few manifests
InitPagination ==
    /\ indexFile \in FewManifestFiles
    /\ indexes = loadIndexes(indexFile)
    /\ file \in {<<n>> : n \in PaginatedNodes}
    /\ pos = 0
    /\ reportedQueries = {}
    /\ reports = createReports(indexFile)
    /\ trace = <<>>
    /\ passes = <<>>

SpecPagination == InitPagination /\ [][CallExpression]_vars

Users == Collection(S_users)
\* the field name 'b:<,a'
S_bLtA == <<"b", ":", "<", ",", "a">>
PassNodes ==
    {<<Users, Where(S_a, S_lt), Where(S_b, S_lt), Get>>,
     <<Users, Where(S_a, S_lt), Where(S_b, S_le), Get>>,
     <<Users, Where(S_a, S_lt), Where(S_b, S_lt), Limit, OnSnapshot>>,
     <<Users, Where(S_b, S_lt), Where(S_a, S_lt), Get>>,
     <<Collection(S_orders), Where(S_a, S_lt), Where(S_b, S_lt), Get>>,
     <<Users, Where(S_a, S_lt), OrderBy(S_b), Get>>,
     <<Users, Where(S_a, S_lt), OrderByDesc(S_b), Count>>,
     <<Users, Where(S_a, S_lt), OrderBy(S_a), Get>>,
     <<Users, Where(S_b, S_eq), Where(S_a, S_lt), OrderBy(S_b), Get>>,
     <<Users, Where(S_a, S_eq), Where(S_b, S_eq), Get>>,
     <<Users, WhereUnknown(S_a), WhereUnknown(S_b), Get>>,
     <<Users, Where(S_a, S_lt), Get>>,
     <<Where(S_a, S_lt), Where(S_b, S_lt), Get>>,
     <<Users, Where(S_a, S_lt), Where(S_b, S_lt), Where(S_a, S_lt), Get>>,
     <<Users, Where(S_a, S_lt), Where(S_bLtA, S_lt), Get>>}

PassManifestFiles ==
    {MissingFile, NoIndexesFile,
     ManifestFile(<<Index(S_users, Undefined,
                          <<IndexField(S_a, "undefined"), IndexField(S_b, "undefined")>>)>>),
     ManifestFile(<<Index(S_orders, Undefined,
                          <<IndexField(S_a, "undefined"), IndexField(S_b, "undefined")>>)>>)}

\* Passes: the rule created for a file of up to MaxCalls call expressions,
\* and then for the files that follow
Init ==
    /\ indexFile \in PassManifestFiles
    /\ indexes = loadIndexes(indexFile)
    /\ file \in SeqsUpTo(PassNodes, MaxCalls)
    /\ pos = 0
    /\ reportedQueries = {}
    /\ reports = createReports(indexFile)
    /\ trace = <<>>
    /\ passes = <<>>

Spec == Init /\ [][Next]_vars

-----------------------------------------------------------------------------
(* Properties.                                                             *)

Visited == {trace[i] : i \in 1..Len(trace)}

\* the manifest holds an `indexes` list (possibly empty)
HoldsIndexList == ~indexes.isNull /\ indexes.hasIndexes

\* the declared indexes of a collection
DeclaredFor(collection) ==
    {indexes.indexes[i] : i \in
        {j \in 1..Len(indexes.indexes) :
            \/ indexes.indexes[j].collectionGroup = collection
            \/ indexes.indexes[j].collectionId = collection}}

\* test (a): some declared index of the collection passes the composite match
PassesComposite(t) ==
    \E index \in DeclaredFor(t.collection) :
        indexMatches(index, t.collection, t.queryFields)

\* test (b): index merging
PassesMerging(t) == canUseIndexMerging(t.queryFields)

IsUnknown(f) == f.operator = S_unknown
NumberOfEqualities(queryFields) == Len(SelectSeq(queryFields, IsEquality))
NumberOfInequalities(queryFields) == Len(SelectSeq(queryFields, IsInequality))
NumberOfOrderBys(queryFields) == Len(SelectSeq(queryFields, IsOrderBy))
NumberOfUnknowns(queryFields) == Len(SelectSeq(queryFields, IsUnknown))

\* the diagnostics emitted so far for the shape of t
DiagnosticsFor(t) ==
    {i \in 1..Len(reports) :
        /\ reports[i].messageId = "missingIndex"
        /\ trace[reports[i].node].queryKey = t.queryKey}

\* C1: a shape with a resolved collection that passes the threshold and whose
\* key was not reported before is reported if and only if index merging is not
\* eligible and no declared index of its collection passes the composite match.
C1_ReportedIffBothTestsFail ==
    \A t \in Visited :
        t.matcherCalled =>
            (t.reported <=> (~PassesMerging(t) /\ ~PassesComposite(t)))

EqualityPlusOneRange(queryFields) ==
    /\ \A i \in 1..Len(queryFields) :
          \/ IsEquality(queryFields[i])
          \/ IsInequality(queryFields[i])
          \/ IsOrderBy(queryFields[i])
    /\ NumberOfInequalities(queryFields) + NumberOfOrderBys(queryFields) = 1

\* C3: equality predicates plus exactly one inequality and no orderBy, or
\* exactly one orderBy and no inequality, are eligible for index merging and
\* are never reported, whatever the manifest.
C3_EqualityPlusOneRangeNeverFlagged ==
    \A t \in Visited :
        (t.terminal /\ EqualityPlusOneRange(t.queryFields))
        => (PassesMerging(t) /\ ~t.reported)

TwoInequalitiesOnDifferentFields(queryFields) ==
    \E i, j \in 1..Len(queryFields) :
        /\ IsInequality(queryFields[i])
        /\ IsInequality(queryFields[j])
        /\ queryFields[i].field # queryFields[j].field

\* C4 as stated: two inequalities on different fields fail the composite match
\* and index merging under every manifest, and the first occurrence is reported.
C4_TwoInequalitiesAlwaysFlagged ==
    \A t \in Visited :
        (t.matcherCalled /\ TwoInequalitiesOnDifferentFields(t.queryFields))
        => (~PassesMerging(t) /\ ~PassesComposite(t) /\ t.reported)

\* C4 as amended: two inequalities on different fields are never eligible for
\* index merging, and the first occurrence is reported exactly when no declared
\* index of the collection passes the composite match.
C4_TwoInequalitiesNeedComposite ==
    \A t \in Visited :
        (t.terminal /\ TwoInequalitiesOnDifferentFields(t.queryFields))
        => /\ ~PassesMerging(t)
           /\ t.matcherCalled => (t.reported <=> ~PassesComposite(t))

\* two inequalities on different fields, reported although the manifest
\* declares an index of the collection
C4_Witness ==
    \E t \in Visited :
        /\ TwoInequalitiesOnDifferentFields(t.queryFields)
        /\ t.matcherCalled
        /\ DeclaredFor(t.collection) # {}
        /\ t.reported

\* no declared index of the collection has an entry for the field with
\* arrayConfig CONTAINS
NoArrayConfigFor(collection, field) ==
    \A index \in DeclaredFor(collection) :
        \A i \in 1..Len(index.fields) :
            ~( /\ index.fields[i].fieldPath = field
               /\ index.fields[i].arrayConfig = "CONTAINS" )

ArrayContainsWithoutConfig(t) ==
    \E k \in 1..Len(t.queryFields) :
        /\ IsArrayContains(t.queryFields[k])
        /\ NoArrayConfigFor(t.collection, t.queryFields[k].field)

\* C5: an array-contains predicate on a field that no declared index of the
\* collection lists with arrayConfig CONTAINS fails both tests, and the checked
\* shape is reported.
C5_ArrayContainsNeedsArrayConfig ==
    \A t \in Visited :
        (t.terminal /\ Truthy(t.collection) /\ ArrayContainsWithoutConfig(t))
        => /\ ~PassesMerging(t)
           /\ ~PassesComposite(t)
           /\ t.matcherCalled => t.reported

\* one array-contains plus one equality, reported although a declared index of
\* the collection lists both fields
C5_Witness ==
    \E t \in Visited :
        /\ ArrayContainsWithoutConfig(t)
        /\ Len(t.queryFields) = 2
        /\ NumberOfEqualities(t.queryFields) = 1
        /\ \E index \in DeclaredFor(t.collection) :
              \A k \in 1..Len(t.queryFields) :
                  \E i \in 1..Len(index.fields) :
                      index.fields[i].fieldPath = t.queryFields[k].field
        /\ t.matcherCalled
        /\ t.reported

OneInequalityOneOrder(queryFields) ==
    /\ NumberOfInequalities(queryFields) = 1
    /\ NumberOfOrderBys(queryFields) = 1

InequalityField(queryFields) == SelectSeq(queryFields, IsInequality)[1].field
OrderField(queryFields) == SelectSeq(queryFields, IsOrderBy)[1].field

\* C6: with exactly one inequality and exactly one orderBy, index merging is
\* eligible only if both name the same field; when they differ and the manifest
\* declares no index for the collection, exactly one diagnostic has been
\* emitted for the query.
C6_InequalityAndOrderSameField ==
    \A t \in Visited :
        (t.terminal /\ OneInequalityOneOrder(t.queryFields))
        => /\ PassesMerging(t)
                => InequalityField(t.queryFields) = OrderField(t.queryFields)
           /\ ( /\ t.checked
                /\ InequalityField(t.queryFields) # OrderField(t.queryFields)
                /\ DeclaredFor(t.collection) = {} )
                => Cardinality(DiagnosticsFor(t)) = 1

\* the same inequality-and-orderBy shape on different fields visited twice with
\* no index declared for the collection
C6_Witness ==
    \E t, u \in Visited :
        /\ u.node < t.node
        /\ OneInequalityOneOrder(t.queryFields)
        /\ InequalityField(t.queryFields) # OrderField(t.queryFields)
        /\ t.checked /\ u.checked
        /\ u.queryKey = t.queryKey
        /\ DeclaredFor(t.collection) = {}
        /\ HoldsIndexList

\* C7: a checked shape with a predicate whose operator is unknown is never
\* treated as satisfied, neither by index merging nor by the composite match:
\* its first occurrence is reported under every manifest.
C7_UnknownOperatorAlwaysFlagged ==
    \A t \in Visited :
        (t.matcherCalled /\ NumberOfUnknowns(t.queryFields) >= 1)
        => t.reported

\* no diagnostic is anchored at the node of t
NoDiagnosticAt(t) == \A i \in 1..Len(reports) : reports[i].node # t.node

\* C8: a shape with at most one predicate and no orderBy never reaches hasIndex
\* and produces no diagnostic, whatever the manifest.
C8_BelowThresholdNeverChecked ==
    \A t \in Visited :
        ( /\ t.terminal
          /\ Len(t.queryFields) <= 1
          /\ NumberOfOrderBys(t.queryFields) = 0 )
        => (~t.matcherCalled /\ ~t.reported /\ NoDiagnosticAt(t))

\* one where() on a resolved collection under a manifest without index list,
\* where every checked shape is reported
C8_Witness ==
    \E t \in Visited :
        /\ t.terminal
        /\ Truthy(t.collection)
        /\ Len(t.queryFields) = 1
        /\ NumberOfOrderBys(t.queryFields) = 0
        /\ ~HoldsIndexList
        /\ ~t.matcherCalled
        /\ NoDiagnosticAt(t)

\* the receiver chain of the call expression file[n]
ReceiverOf(n) == SubSeq(file[n], 1, Len(file[n]) - 1)

\* a call at which the backward walk stops: a callee that is no member
\* expression, collection()/collectionGroup() with an argument, or a method
\* named with the collection-reference suffix
IsRootCall(call) ==
    \/ call.calleeType # "MemberExpression"
    \/ call.method \in {S_collection, S_collectionGroup} /\ Len(call.arguments) > 0
    \/ EndsWith(call.method, S_CollRef)
    \/ EndsWith(call.method, S_CollectionRef)
    \/ EndsWith(call.method, S_Ref)

\* the chain does not resolve a collection: it holds no root call (the walk
\* ends at the node left of the first call), or its rightmost root call has a
\* callee that is no member expression or is collection() with a non-literal
\* argument
ChainUnresolved(chain) ==
    LET roots == {i \in 1..Len(chain) : IsRootCall(chain[i])}
    IN  \/ roots = {}
        \/ LET k == CHOOSE i \in roots : \A j \in roots : j <= i
           IN  \/ chain[k].calleeType # "MemberExpression"
               \/ /\ chain[k].method \in {S_collection, S_collectionGroup}
                  /\ chain[k].arguments[1].type # "Literal"

\* C9: a terminal call whose chain does not resolve a collection never reaches
\* hasIndex and never produces a diagnostic, however many predicates it has.
C9_UnresolvedNeverChecked ==
    \A t \in Visited :
        (t.terminal /\ ChainUnresolved(ReceiverOf(t.node)))
        => /\ t.collection = Null
           /\ ~t.matcherCalled
           /\ ~t.reported
           /\ NoDiagnosticAt(t)

\* an unresolved chain with two predicates that ends at collection(name), under
\* a manifest without index list
C9_Witness ==
    \E t \in Visited :
        /\ t.terminal
        /\ ChainUnresolved(ReceiverOf(t.node))
        /\ \E i \in 1..Len(ReceiverOf(t.node)) : ReceiverOf(t.node)[i] = DynamicCollection
        /\ Len(t.queryFields) = 2
        /\ ~HoldsIndexList
        /\ ~t.matcherCalled
        /\ NoDiagnosticAt(t)

SignatureOf(queryFields) ==
    [i \in 1..Len(queryFields) |-> <<queryFields[i].field, queryFields[i].operator>>]

\* C10: in one pass at most one missingIndex diagnostic is emitted per
\* deduplication key: a later call site with the collection and the ordered
\* predicate signature of a reported shape emits nothing.
C10_OneDiagnosticPerKey ==
    /\ \A i, j \in 1..Len(reports) :
          (i < j) => trace[reports[i].node].queryKey # trace[reports[j].node].queryKey
    /\ \A u, t \in Visited :
          ( /\ u.node < t.node
            /\ u.reported
            /\ t.terminal
            /\ t.collection = u.collection
            /\ SignatureOf(t.queryFields) = SignatureOf(u.queryFields) )
          => (~t.reported /\ NoDiagnosticAt(t))

\* a reported shape visited a second time
C10_Witness ==
    \E u, t \in Visited :
        /\ u.node < t.node
        /\ u.reported
        /\ t.checked
        /\ t.collection = u.collection
        /\ SignatureOf(t.queryFields) = SignatureOf(u.queryFields)
        /\ ~t.reported

\* the kind of a predicate (the classes of part_001:93-100)
KindOf(f) ==
    IF IsEquality(f) THEN "EQUALITY"
    ELSE IF IsInequality(f) THEN "INEQUALITY"
    ELSE IF IsOrderBy(f) THEN "ORDER"
    ELSE IF f.operator = S_arrayContains THEN "ARRAY_CONTAINS"
    ELSE IF f.operator = S_arrayContainsAny THEN "ARRAY_CONTAINS_ANY"
    ELSE "UNKNOWN"

KindSignatureOf(queryFields) ==
    [i \in 1..Len(queryFields) |-> <<queryFields[i].field, KindOf(queryFields[i])>>]

\* C11 as stated: the deduplication key is the collection plus the ordered
\* (field, kind) pairs: after a reported shape, a checked shape with the same
\* collection and the same ordered (field, kind) pairs is not reported, and a
\* shape is suppressed only by such a shape.
C11_KeyIsFieldKindPairs ==
    \A t \in Visited :
        /\ \A u \in Visited :
              ( /\ u.node < t.node
                /\ u.reported
                /\ t.checked
                /\ t.collection = u.collection
                /\ KindSignatureOf(t.queryFields) = KindSignatureOf(u.queryFields) )
              => ~t.reported
        /\ t.seen =>
              \E u \in Visited :
                  /\ u.node < t.node
                  /\ u.reported
                  /\ t.collection = u.collection
                  /\ KindSignatureOf(t.queryFields) = KindSignatureOf(u.queryFields)

\* the operators the rule classifies, with 'orderBy' and 'unknown'
KnownOperators ==
    {S_eq, S_lt, S_le, S_gt, S_ge, S_arrayContains, S_arrayContainsAny,
     S_orderBy, S_unknown}

HasKnownOperators(queryFields) ==
    \A i \in 1..Len(queryFields) : queryFields[i].operator \in KnownOperators

\* hasIndex answers false for the shape of t
Unsatisfied(t) ==
    ~(HoldsIndexList /\ (PassesMerging(t) \/ PassesComposite(t)))

\* an earlier visited node reported the key of t
ReportedBefore(t) ==
    \E u \in Visited : u.node < t.node /\ u.reported /\ u.queryKey = t.queryKey

\* C11 as amended: the deduplication key is the string built from the
\* collection and the ordered (field, operator) pairs.  A checked shape is
\* suppressed exactly when an earlier reported shape has the same key string;
\* shapes with the same collection and the same ordered (field, operator)
\* pairs have the same key, so the second is not reported; shapes on the same
\* collection and fields that differ in a classified operator ('<' versus
\* '<=') have different keys; an unsatisfied shape whose key was not reported
\* before is reported.
C11_KeyIsFieldOperatorPairs ==
    \A t \in Visited :
        /\ t.checked => (t.seen <=> ReportedBefore(t))
        /\ (t.checked /\ ~ReportedBefore(t) /\ Unsatisfied(t)) => t.reported
        /\ \A u \in Visited :
              (u.checked /\ t.checked /\ u.collection = t.collection) =>
                  /\ SignatureOf(u.queryFields) = SignatureOf(t.queryFields)
                        => u.queryKey = t.queryKey
                  /\ ( /\ FieldsOf(u.queryFields) = FieldsOf(t.queryFields)
                        /\ HasKnownOperators(u.queryFields)
                        /\ HasKnownOperators(t.queryFields)
                        /\ SignatureOf(u.queryFields) # SignatureOf(t.queryFields) )
                        => u.queryKey # t.queryKey

\* two shapes of one pass that differ only in the inequality operator, both
\* reported
C11_Witness ==
    \E u, t \in Visited :
        /\ u.node < t.node
        /\ u.collection = t.collection
        /\ KindSignatureOf(u.queryFields) = KindSignatureOf(t.queryFields)
        /\ SignatureOf(u.queryFields) # SignatureOf(t.queryFields)
        /\ u.reported
        /\ t.reported

\* the manifest file exists and is read, but its content is no JSON
Malformed == indexFile.exists /\ indexFile.readable /\ ~indexFile.parses

\* the diagnostics with the given message emitted so far
ReportsOf(messageId) == {i \in 1..Len(reports) : reports[i].messageId = messageId}

\* C12: when the manifest file holds malformed JSON, creating the rule emits
\* exactly one invalidIndexFile diagnostic, the visitor handles no call
\* expression and no missingIndex diagnostic is emitted.
C12_MalformedManifestReportedOnce ==
    Malformed =>
        /\ Cardinality(ReportsOf("invalidIndexFile")) = 1
        /\ ReportsOf("missingIndex") = {}
        /\ trace = <<>>

\* the manifest file is missing or cannot be read
Unread == ~indexFile.exists \/ ~indexFile.readable

\* C13: when the manifest file is missing or cannot be read, the loaded
\* manifest has an empty index list, no invalidIndexFile diagnostic is emitted,
\* and every checked shape not reported before is reported exactly when it is
\* not eligible for index merging, as against an empty manifest.
C13_MissingManifestIsEmpty ==
    Unread =>
        /\ indexes = EmptyManifest
        /\ ReportsOf("invalidIndexFile") = {}
        /\ \A t \in Visited :
              /\ (t.terminal /\ needsIndexCheck(t.collection, t.queryFields))
                    => t.checked
              /\ t.matcherCalled => (t.reported <=> ~PassesMerging(t))

\* under an unreadable manifest file, a shape that is eligible for index
\* merging, checked and not reported
C13_Witness ==
    /\ indexFile.exists
    /\ ~indexFile.readable
    /\ \E t \in Visited :
          t.matcherCalled /\ PassesMerging(t) /\ ~t.reported

\* a set of diagnostics: call-site node, message, collection, filters string
DiagnosticSet(rs) ==
    {<<rs[i].node, rs[i].messageId, rs[i].collection, rs[i].filters>> :
        i \in 1..Len(rs)}

\* the host has handed every call expression of the file to the visitor
PassDone == pos = Len(file)

\* C14: two passes over the same sequence of call sites with the same manifest
\* file, each with a rule created anew, emit the same set of diagnostics.
C14_SamePassSameDiagnostics ==
    \A k \in 1..Len(passes) :
        (PassDone /\ passes[k].file = file)
        => DiagnosticSet(passes[k].reports) = DiagnosticSet(reports)

\* a file linted a second time, with a diagnostic and a suppressed repetition
C14_Witness ==
    /\ PassDone
    /\ \E k \in 1..Len(passes) : passes[k].file = file
    /\ reports # <<>>
    /\ \E t \in Visited : t.seen

\* the keys reported by a finished pass
KeysReportedIn(pass) ==
    {pass.trace[pass.reports[i].node].queryKey : i \in 1..Len(pass.reports)}

\* the keys reported so far by the current pass
KeysReported == {trace[reports[i].node].queryKey : i \in 1..Len(reports)}

\* C15: the deduplication set is empty when a pass starts and holds only keys
\* reported by the current pass: a shape reported in an earlier pass and
\* checked in the current one is reported again, and only a diagnostic of the
\* current pass suppresses a shape.
C15_DedupSetPerPass ==
    /\ pos = 0 => reportedQueries = {}
    /\ reportedQueries = KeysReported
    /\ \A t \in Visited :
          /\ t.seen => ReportedBefore(t)
          /\ \A k \in 1..Len(passes) :
                (t.checked /\ t.queryKey \in KeysReportedIn(passes[k]))
                => Cardinality(DiagnosticsFor(t)) = 1

\* a shape reported in a finished pass and reported again by the pass over a
\* different file
C15_Witness ==
    \E k \in 1..Len(passes) :
        /\ passes[k].file # file
        /\ \E t \in Visited :
              /\ t.reported
              /\ t.queryKey \in KeysReportedIn(passes[k])

IsNoPagination(call) ==
    ~(call.calleeType = "MemberExpression" /\ call.method \in PaginationMethods)

\* the chain with its pagination calls removed
WithoutPagination(chain) == SelectSeq(chain, IsNoPagination)

\* C16: the collection and the ordered predicate list extracted from a chain
\* are those extracted from the chain with every limit, offset, startAt,
\* startAfter, endAt and endBefore call removed, and the first visit of the
\* chain is reported exactly when the chain without them would be.
C16_PaginationTransparent ==
    \A t \in Visited :
        t.terminal =>
            LET plain == analyzeCallChain(WithoutPagination(ReceiverOf(t.node)))
            IN  /\ t.collection = plain.collection
                /\ t.queryFields = plain.queryFields
                /\ t.node = 1 =>
                      (t.reported <=>
                          /\ needsIndexCheck(plain.collection, plain.queryFields)
                          /\ ~hasIndex(plain.collection, plain.queryFields))

\* a reported chain with a pagination call between its two predicates
C16_Witness ==
    \E t \in Visited :
        LET chain == ReceiverOf(t.node)
        IN  /\ t.reported
            /\ Len(t.queryFields) = 2
            /\ \E i, j, k \in 1..Len(chain) :
                  /\ i < j /\ j < k
                  /\ chain[i].method \in {S_where, S_orderBy}
                  /\ ~IsNoPagination(chain[j])
                  /\ chain[k].method \in {S_where, S_orderBy}
            /\ Len(WithoutPagination(chain)) < Len(chain)

NumberOfArrayContains(queryFields) == Len(SelectSeq(queryFields, IsArrayContains))

\* C17: a predicate list with more than one orderBy, or with an array-contains
\* or array-contains-any predicate, is not eligible for index merging whatever
\* its other predicates are, and its first checked occurrence is reported
\* exactly when no declared index of the collection passes the composite match.
C17_ManyOrdersOrArrayContainsNotMerged ==
    \A t \in Visited :
        ( /\ t.terminal
          /\ \/ NumberOfOrderBys(t.queryFields) > 1
             \/ NumberOfArrayContains(t.queryFields) >= 1 )
        => /\ ~PassesMerging(t)
           /\ t.matcherCalled => (t.reported <=> ~PassesComposite(t))

\* under a manifest with an index list: an array-contains predicate with one
\* orderBy, reported
C17_Witness ==
    \E t \in Visited :
        /\ HoldsIndexList
        /\ NumberOfArrayContains(t.queryFields) = 1
        /\ NumberOfOrderBys(t.queryFields) = 1
        /\ t.matcherCalled
        /\ t.reported

\* a where() or orderBy() call that yields a predicate
IsPredicateCall(call) ==
    /\ call.calleeType = "MemberExpression"
    /\ \/ call.method = S_where /\ Len(call.arguments) >= 2
       \/ call.method = S_orderBy /\ Len(call.arguments) >= 1
    /\ call.arguments[1].type = "Literal"

\* the text "field (operator)" of a predicate call
FilterTextOf(call) ==
    call.arguments[1].value \o <<" ", "(">>
        \o (IF call.method = S_orderBy THEN S_orderBy
            ELSE IF call.arguments[2].type = "Literal" THEN call.arguments[2].value
            ELSE S_unknown)
        \o <<")">>

\* the index in the chain of its rightmost root call, 0 when it has none
RootOf(chain) ==
    LET roots == {i \in 1..Len(chain) : IsRootCall(chain[i])}
    IN  IF roots = {} THEN 0 ELSE CHOOSE i \in roots : \A j \in roots : j <= i

\* the predicate calls to the right of the root, from left to right
SourcePredicates(chain) ==
    SelectSeq(SubSeq(chain, RootOf(chain) + 1, Len(chain)), IsPredicateCall)

SourceFilters(chain) ==
    Join([i \in 1..Len(SourcePredicates(chain)) |->
            FilterTextOf(SourcePredicates(chain)[i])], <<",", " ">>)

\* the collection named by the root call of a resolved chain
SourceCollection(chain) ==
    LET root == chain[RootOf(chain)]
    IN  IF root.method \in {S_collection, S_collectionGroup}
        THEN root.arguments[1].value
        ELSE customCollection(root.method)

\* C18: every missingIndex diagnostic is anchored at a terminal call node and
\* carries the collection resolved from the root of its chain, the configured
\* indexesPath, and the filters string "field (operator)" of every predicate
\* call of the chain, joined by ", " in the left-to-right order of the source.
C18_DiagnosticCarriesSourceOrder ==
    \A i \in 1..Len(reports) :
        reports[i].messageId = "missingIndex" =>
            LET n == reports[i].node
                chain == ReceiverOf(n)
            IN  /\ n \in 1..pos
                /\ isTerminalCall(file[n][Len(file[n])])
                /\ ~ChainUnresolved(chain)
                /\ reports[i].collection = SourceCollection(chain)
                /\ reports[i].indexesPath = indexesPath
                /\ reports[i].filters = SourceFilters(chain)

\* a diagnostic for a chain of three predicates on three different
\* (field, operator) pairs, anchored at the second call expression of the file
C18_Witness ==
    \E i \in 1..Len(reports) :
        /\ reports[i].node = 2
        /\ Len(trace[2].queryFields) = 3
        /\ Cardinality({trace[2].queryFields[k] : k \in 1..3}) = 3

\* the method name ends in the collection-reference suffix
HasCollRefSuffix(methodName) ==
    EndsWith(methodName, S_CollRef) \/ EndsWith(methodName, S_CollectionRef)

\* the method name with the collection-reference suffix removed
WithoutCollRefSuffix(methodName) ==
    IF EndsWith(methodName, S_CollectionRef)
    THEN StripSuffix(methodName, S_CollectionRef)
    ELSE StripSuffix(methodName, S_CollRef)

\* first character lower-cased, 's' appended unless the name ends in 's'
Pluralized(name) ==
    LET lowered == IF name = <<>> THEN <<>>
                   ELSE <<ToLowerCase(name[1])>> \o Tail(name)
    IN  IF EndsWith(lowered, S_s) THEN lowered ELSE lowered \o S_s

\* C19: a chain rooted at a call whose method name ends in CollRef or
\* CollectionRef resolves the collection as that name with the suffix removed,
\* the first character lower-cased and 's' appended unless it ends in 's', and
\* only the calls to the right of that root contribute predicates.
C19_CustomCollectionFromSuffix ==
    \A t \in Visited :
        LET chain == ReceiverOf(t.node)
            root == chain[RootOf(chain)]
        IN  ( /\ t.terminal
              /\ RootOf(chain) > 0
              /\ root.calleeType = "MemberExpression"
              /\ HasCollRefSuffix(root.method) )
            => /\ t.collection = Pluralized(WithoutCollRefSuffix(root.method))
               /\ FieldsOf(t.queryFields)
                     = [i \in 1..Len(SourcePredicates(chain)) |->
                            SourcePredicates(chain)[i].arguments[1].value]

\* the shape is an inequality on one field followed by an equality on another,
\* and the index lists exactly these two fields, without arrayConfig, in the
\* given order
InequalityThenEquality(queryFields) ==
    /\ Len(queryFields) = 2
    /\ IsInequality(queryFields[1])
    /\ IsEquality(queryFields[2])
    /\ queryFields[1].field # queryFields[2].field

ListsFields(index, first, second) ==
    /\ FieldPathsOf(index.fields) = <<first, second>>
    /\ \A i \in 1..2 : index.fields[i].arrayConfig = "undefined"

RelevantFields(index) == SelectSeq(index.fields, IsNotName)

\* the equality-class fields of a shape: its == and array-contains fields
EqualityClass(queryFields) ==
    FieldsOf(SelectSeq(queryFields, IsEquality))
        \o FieldsOf(SelectSeq(queryFields, IsArrayContains))

\* the inequality fields of a shape followed by its orderBy fields
RangeClass(queryFields) ==
    FieldsOf(SelectSeq(queryFields, IsInequality))
        \o FieldsOf(SelectSeq(queryFields, IsOrderBy))

\* the length of the leading equality run of the index for the shape
RunLength(index, queryFields) ==
    equalityRunEnd(RelevantFields(index), EqualityClass(queryFields), 0)

\* C21: the composite match accepts an index for a shape with predicates only
\* if the index fields after the leading equality run equal, position by
\* position, the inequality fields of the shape followed by its orderBy
\* fields, and the index does not end before that list does.
C21_RangeFieldsPositional ==
    \A t \in Visited :
        \A index \in DeclaredFor(t.collection) :
            ( /\ t.terminal
              /\ Len(t.queryFields) > 0
              /\ indexMatches(index, t.collection, t.queryFields) )
            => LET run == RunLength(index, t.queryFields)
                   range == RangeClass(t.queryFields)
               IN  /\ run + Len(range) <= Len(RelevantFields(index))
                   /\ \A k \in 1..Len(range) :
                         RelevantFields(index)[run + k].fieldPath = range[k]

\* a shape with an inequality and an orderBy on different fields that a
\* declared index of two fields matches, not reported
C21_Witness ==
    \E t \in Visited :
        /\ t.matcherCalled
        /\ OneInequalityOneOrder(t.queryFields)
        /\ InequalityField(t.queryFields) # OrderField(t.queryFields)
        /\ PassesComposite(t)
        /\ ~t.reported

\* the permutations of 1..n
PermutationsOf(n) ==
    {p \in [1..n -> 1..n] : \A i, j \in 1..n : (i # j) => (p[i] # p[j])}

\* the sequence with its elements rearranged by the permutation
Permuted(seq, p) == [i \in 1..Len(seq) |-> seq[p[i]]]

\* two predicate lists with the same inequality predicates in the same order
\* and the same orderBy predicates in the same order
SameRangeOrder(q1, q2) ==
    /\ SelectSeq(q1, IsInequality) = SelectSeq(q2, IsInequality)
    /\ SelectSeq(q1, IsOrderBy) = SelectSeq(q2, IsOrderBy)

\* the index with the first `run` of its relevant fields rearranged
WithRunPermuted(index, run, p) ==
    [index EXCEPT !.fields =
        [i \in 1..Len(RelevantFields(index)) |->
            IF i <= run THEN RelevantFields(index)[p[i]]
            ELSE RelevantFields(index)[i]]]

\* no field path is listed twice among the relevant fields of the index
NoFieldTwice(index) ==
    \A i, j \in 1..Len(RelevantFields(index)) :
        (i # j) => RelevantFields(index)[i].fieldPath # RelevantFields(index)[j].fieldPath

ShapeFields(queryFields) == {queryFields[i].field : i \in 1..Len(queryFields)}

\* C23: whenever the composite match accepts a checked shape against a
\* declared index, every index field (__name__ entries set aside) up to the
\* last matched position, the end of the equality run plus the number of
\* range fields, is a field the shape names: no index field is skipped.
C23_MatchedFieldsAreLeadingSegment ==
    \A t \in Visited :
        \A index \in DeclaredFor(t.collection) :
            (t.matcherCalled /\ indexMatches(index, t.collection, t.queryFields))
            => \A k \in 1..(RunLength(index, t.queryFields)
                               + Len(RangeClass(t.queryFields))) :
                  k <= Len(RelevantFields(index))
                  => RelevantFields(index)[k].fieldPath \in ShapeFields(t.queryFields)

-----------------------------------------------------------------------------
(* Merging: one terminal call on users with up to MaxPreds + 1 predicates,  *)
(* so that two inequalities meet an orderBy or an equality.                 *)

MergingCalls ==
    {Where(S_a, S_lt), Where(S_a, S_gt), Where(S_b, S_lt), Where(S_a, S_eq),
     Where(S_b, S_arrayContains), OrderBy(S_a), OrderBy(S_b)}

MergingNodes ==
    {<<Collection(S_users)>> \o calls \o <<Get>> :
        calls \in SeqsUpTo(MergingCalls, MaxPreds + 1)}

InitMerging ==
    /\ indexFile \in FewManifestFiles
    /\ indexes = loadIndexes(indexFile)
    /\ file \in {<<n>> : n \in MergingNodes}
    /\ pos = 0
    /\ reportedQueries = {}
    /\ reports = createReports(indexFile)
    /\ trace = <<>>
    /\ passes = <<>>

SpecMerging == InitMerging /\ [][CallExpression]_vars

\* the inequality predicates of the shape all name one field
InequalitiesShareField(queryFields) ==
    \A i, j \in 1..Len(queryFields) :
        (IsInequality(queryFields[i]) /\ IsInequality(queryFields[j]))
        => queryFields[i].field = queryFields[j].field

\* C24: a shape with more than one inequality, no array-contains and at most
\* one orderBy is eligible for index merging exactly when its inequalities
\* all name one field and it has no orderBy or its orderBy names that field.
C24_SeveralInequalitiesMergeOnOneField ==
    \A t \in Visited :
        (/\ t.terminal
         /\ NumberOfInequalities(t.queryFields) > 1
         /\ NumberOfArrayContains(t.queryFields) = 0
         /\ NumberOfOrderBys(t.queryFields) <= 1)
        => (canUseIndexMerging(t.queryFields)
              <=> /\ InequalitiesShareField(t.queryFields)
                  /\ \/ NumberOfOrderBys(t.queryFields) = 0
                     \/ OrderField(t.queryFields) = InequalityField(t.queryFields))

\* two inequalities on one field with an orderBy on another field, checked
\* and reported with a manifest that declares no index
C24_Witness ==
    \E t \in Visited :
        /\ t.matcherCalled
        /\ NumberOfInequalities(t.queryFields) = 2
        /\ InequalitiesShareField(t.queryFields)
        /\ NumberOfOrderBys(t.queryFields) = 1
        /\ OrderField(t.queryFields) # InequalityField(t.queryFields)
        /\ ~canUseIndexMerging(t.queryFields)
        /\ HoldsIndexList
        /\ t.reported

-----------------------------------------------------------------------------
(* The TypeScript rule (lib/rules/firestore-indexes.ts): the same visitor   *)
(* with type information and variable tracking.  A call of a chain carries  *)
(* objectType, what the type checker says of its receiver: whether the type *)
(* string includes 'CollectionReference', and the collection name           *)
(* getCollectionFromType finds in it (Null when the pattern does not        *)
(* match).  A query field is a record [field, operator].                    *)

NoType == [collectionReference |-> FALSE, collection |-> Null]
CollectionReferenceType(c) == [collectionReference |-> TRUE, collection |-> c]
TypedCall(call, objectType) ==
    [calleeType |-> call.calleeType, method |-> call.method,
     arguments |-> call.arguments, objectType |-> objectType]

\* firestore-indexes.ts:102-115
getCollectionFromType(type) == type.collection

\* firestore-indexes.ts:243-251
collectionFromMethodName(methodName) ==
    LET collectionName ==
            StripSuffix(StripSuffix(StripSuffix(methodName, S_CollRef),
                                    S_CollectionRef), S_Ref)
        collection == IF collectionName = <<>> THEN <<>>
                      ELSE <<ToLowerCase(collectionName[1])>> \o Tail(collectionName)
    IN  IF collection # <<>> /\ ~EndsWith(collection, S_s)
        THEN collection \o S_s ELSE collection

RECURSIVE walkQueryChain(_, _, _)

\* firestore-indexes.ts:188-279: the loop, at call i of the chain; the node
\* left of call 1 is no call expression
walkQueryChain(chain, i, queryFields) ==
    IF i = 0 THEN [collection |-> Null, queryFields |-> queryFields]
    ELSE
    LET callExpr == chain[i]
        methodName == callExpr.method
        arguments == callExpr.arguments
        isWhere == methodName = S_where /\ Len(arguments) >= 2
        isOrderBy == ~isWhere /\ methodName = S_orderBy /\ Len(arguments) >= 1
        isCollection == /\ ~isWhere /\ ~isOrderBy
                        /\ methodName \in {S_collection, S_collectionGroup}
                        /\ Len(arguments) > 0
        extracted ==
            IF isWhere /\ arguments[1].type = "Literal"
            THEN Unshift(queryFields,
                    [field |-> arguments[1].value,
                     operator |-> IF arguments[2].type = "Literal"
                                  THEN arguments[2].value ELSE S_unknown])
            ELSE IF isOrderBy /\ arguments[1].type = "Literal"
            THEN Unshift(queryFields,
                    [field |-> arguments[1].value, operator |-> S_orderBy])
            ELSE queryFields
    IN  IF callExpr.calleeType # "MemberExpression"
        THEN [collection |-> Null, queryFields |-> queryFields]
        ELSE IF methodName \in PaginationMethods
        THEN walkQueryChain(chain, i - 1, queryFields)
        ELSE IF isCollection
        THEN [collection |-> IF arguments[1].type = "Literal"
                             THEN arguments[1].value ELSE Null,
              queryFields |-> queryFields]
        ELSE IF /\ callExpr.objectType.collectionReference
                /\ \/ EndsWith(methodName, S_CollRef)
                   \/ EndsWith(methodName, S_CollectionRef)
                   \/ EndsWith(methodName, S_Ref)
        THEN [collection |-> collectionFromMethodName(methodName),
              queryFields |-> extracted]
        ELSE IF /\ callExpr.objectType.collectionReference
                /\ Truthy(getCollectionFromType(callExpr.objectType))
        THEN [collection |-> getCollectionFromType(callExpr.objectType),
              queryFields |-> extracted]
        ELSE walkQueryChain(chain, i - 1, extracted)

\* firestore-indexes.ts:182-282, for a node that is the last call of a chain
analyzeQueryChain(chain) == walkQueryChain(chain, Len(chain), <<>>)

\* firestore-indexes.ts:126-151
tsHasIndex(collection, queryFields) ==
    IF indexes.isNull \/ ~indexes.hasIndexes THEN FALSE
    ELSE \E k \in 1..Len(indexes.indexes) :
            LET index == indexes.indexes[k]
                indexFieldNames == FieldPathsOf(SelectSeq(index.fields, IsNotName))
            IN  /\ index.collectionGroup = collection \/ index.collectionId = collection
                /\ \/ Len(queryFields) = 0
                   \/ \A q \in 1..Len(queryFields) :
                        Includes(indexFieldNames, queryFields[q].field)

\* firestore-indexes.ts:156-177: the write expressions of the variable, none
\* when the scope of the call does not hold the variable
traceVariable(queryObject) ==
    IF queryObject.declared THEN queryObject.writes ELSE <<>>

\* firestore-indexes.ts:331-348, from the deduplication set `reported`: the
\* set afterwards and the diagnostics emitted
checkAndReport(node, collection, queryFields, reported) ==
    LET queryKey == queryKeyOf(collection, queryFields)
    IN  IF queryKey \notin reported /\ ~tsHasIndex(collection, queryFields)
        THEN [reportedQueries |-> reported \cup {queryKey},
              reports |-> <<[node |-> node, messageId |-> "missingIndex",
                             collection |-> collection,
                             filters |-> filtersOf(queryFields),
                             indexesPath |-> indexesPath]>>]
        ELSE [reportedQueries |-> reported, reports |-> <<>>]

\* the expression analysed: a call expression goes through analyzeQueryChain,
\* any other node leaves the loop at once
analyzeExpression(expression) ==
    IF expression.type = "CallExpression" THEN analyzeQueryChain(expression.chain)
    ELSE [collection |-> Null, queryFields |-> <<>>]

RECURSIVE checkAssignments(_, _, _, _)
\* firestore-indexes.ts:311-319: the for loop over the assignments from
\* number k on; acc is [reportedQueries, reports, shapes] so far
checkAssignments(assignments, k, node, acc) ==
    IF k > Len(assignments) THEN acc
    ELSE
    LET assignment == assignments[k]
        shape == analyzeExpression(assignment)
        checked == /\ assignment.type = "CallExpression"
                   /\ needsIndexCheck(shape.collection, shape.queryFields)
        result == IF checked
                  THEN checkAndReport(node, shape.collection, shape.queryFields,
                                      acc.reportedQueries)
                  ELSE [reportedQueries |-> acc.reportedQueries, reports |-> <<>>]
    IN  checkAssignments(assignments, k + 1, node,
            [reportedQueries |-> result.reportedQueries,
             reports |-> acc.reports \o result.reports,
             shapes |-> Append(acc.shapes,
                          [collection |-> shape.collection,
                           queryFields |-> shape.queryFields,
                           checked |-> checked,
                           reported |-> result.reports # <<>>])])

\* the assignments checked together, as one chain
trackSite_CombinedWrites(n) ==
    LET site == file[n]
        terminal == isTerminalCall(site.callee)
        identifier == terminal /\ site.object.type = "Identifier"
        assignments == IF identifier THEN traceVariable(site.object) ELSE <<>>
        calls == SelectSeq(assignments, LAMBDA a : a.type = "CallExpression")
        combined == IF calls = <<>> THEN <<>>
                    ELSE <<[type |-> "CallExpression",
                            chain |-> calls[1].chain
                                \o (IF Len(calls) > 1 THEN calls[Len(calls)].chain
                                    ELSE <<>>)]>>
        traced == checkAssignments(combined, 1, n,
                    [reportedQueries |-> reportedQueries, reports |-> <<>>,
                     shapes |-> <<>>])
    IN  [node |-> n, terminal |-> terminal, identifier |-> identifier,
         assignments |-> assignments, shapes |-> traced.shapes,
         direct |-> [collection |-> Null, queryFields |-> <<>>,
                     checked |-> FALSE, reported |-> FALSE],
         reportedQueries |-> traced.reportedQueries,
         reports |-> traced.reports]

\* firestore-indexes.ts:290-326: what analyzeQueryWithVariableTracking does
\* with call site n of the file in the current state
trackSite(n) ==
    LET site == file[n]
        terminal == isTerminalCall(site.callee)
        identifier == terminal /\ site.object.type = "Identifier"
        assignments == IF identifier THEN traceVariable(site.object) ELSE <<>>
        traced == checkAssignments(assignments, 1, n,
                    [reportedQueries |-> reportedQueries, reports |-> <<>>,
                     shapes |-> <<>>])
        shape == IF terminal THEN analyzeExpression(site.object)
                 ELSE [collection |-> Null, queryFields |-> <<>>]
        checked == terminal /\ needsIndexCheck(shape.collection, shape.queryFields)
        result == IF checked
                  THEN checkAndReport(n, shape.collection, shape.queryFields,
                                      traced.reportedQueries)
                  ELSE [reportedQueries |-> traced.reportedQueries, reports |-> <<>>]
    IN  [node |-> n, terminal |-> terminal, identifier |-> identifier,
         assignments |-> assignments, shapes |-> traced.shapes,
         direct |-> [collection |-> shape.collection,
                     queryFields |-> shape.queryFields,
                     checked |-> checked, reported |-> result.reports # <<>>],
         reportedQueries |-> result.reportedQueries,
         reports |-> traced.reports \o result.reports]

\* firestore-indexes.ts:351-353: the visitor called for the next call site
analyzeQueryWithVariableTracking ==
    /\ pos < Len(file)
    /\ LET h == trackSite(pos + 1)
       IN  /\ pos' = pos + 1
           /\ trace' = Append(trace, h)
           /\ reportedQueries' = h.reportedQueries
           /\ reports' = reports \o h.reports
    /\ UNCHANGED <<indexFile, indexes, file, passes>>

\* firestore-indexes.ts:70-78, for a file that reads and parses
readIndexes(f) == IF f.exists THEN f.value ELSE EmptyManifest

\* bound on the writes to one variable
MaxWrites == 2

Untyped(call) == TypedCall(call, NoType)
CallChain(chain) == [type |-> "CallExpression", chain |-> chain]

\* right-hand sides of writes to a query variable
\* firestore.collection('users').where('a', '==', x).orderBy('b')
UsersEqualityOrder ==
    CallChain(<<Untyped(Users), Untyped(Where(S_a, S_eq)), Untyped(OrderBy(S_b))>>)
\* query.where('a', '==', x): the chain ends at the identifier
Reassigned == CallChain(<<Untyped(Where(S_a, S_eq))>>)
\* query.where('b', '<', x).orderBy('a'), query a CollectionReference<D, "users">
TypedReassigned ==
    CallChain(<<TypedCall(Where(S_b, S_lt), CollectionReferenceType(S_users)),
                Untyped(OrderBy(S_a))>>)
\* firestore.templateCollRef().where('a', '==', x).where('b', '==', y), the
\* type of firestore naming CollectionReference
TemplatesTwoEqualities ==
    CallChain(<<TypedCall(MemberCall(S_templateCollRef, <<>>),
                          CollectionReferenceType(Null)),
                TypedCall(Where(S_a, S_eq), CollectionReferenceType(Null)),
                Untyped(Where(S_b, S_eq))>>)
\* cond ? q1 : q2
Conditional == [type |-> "ConditionalExpression", chain |-> <<>>]
\* firestore.collection(name).where('a', '==', x).orderBy('b')
DynamicEqualityOrder ==
    CallChain(<<Untyped(DynamicCollection), Untyped(Where(S_a, S_eq)),
                Untyped(OrderBy(S_b))>>)
\* firestore.collection('users').where('a', '==', x)
UsersOneEquality == CallChain(<<Untyped(Users), Untyped(Where(S_a, S_eq))>>)
\* firestore.collection('orders').where('b', '<', x).limit(n).orderBy('a')
OrdersRangeOrder ==
    CallChain(<<Untyped(Collection(S_orders)), Untyped(Where(S_b, S_lt)),
                Untyped(Limit), Untyped(OrderBy(S_a))>>)

TrackedWrites ==
    {UsersEqualityOrder, Reassigned, TypedReassigned, TemplatesTwoEqualities,
     Conditional, DynamicEqualityOrder, UsersOneEquality, OrdersRangeOrder}

\* the identifier a terminal call is made on: whether the scope of the call
\* holds the variable, and the right-hand sides of the writes to it
QueryVariable(declared, writes) ==
    [type |-> "Identifier", declared |-> declared, writes |-> writes, chain |-> <<>>]

\* query.get(), query.then(f), and a terminal call made on a chain
TrackedSites ==
    {[callee |-> callee, object |-> QueryVariable(declared, writes)] :
        callee \in {Get, Then}, declared \in BOOLEAN,
        writes \in SeqsUpTo(TrackedWrites, MaxWrites)}
      \cup {[callee |-> Get, object |-> w] : w \in TrackedWrites}

InitTracking ==
    /\ indexFile \in FewManifestFiles
    /\ indexes = readIndexes(indexFile)
    /\ file \in {<<site>> : site \in TrackedSites}
    /\ pos = 0
    /\ reportedQueries = {}
    /\ reports = <<>>
    /\ trace = <<>>
    /\ passes = <<>>

SpecTracking == InitTracking /\ [][analyzeQueryWithVariableTracking]_vars

\* a call at which analyzeQueryChain stops with a collection decided
IsTypedRootCall(call) ==
    \/ call.method \in {S_collection, S_collectionGroup} /\ Len(call.arguments) > 0
    \/ /\ call.objectType.collectionReference
       /\ \/ EndsWith(call.method, S_Ref)
          \/ call.objectType.collection # Null

\* the index of the rightmost such call of the chain, 0 when it has none
TypedRootOf(chain) ==
    LET roots == {i \in 1..Len(chain) : IsTypedRootCall(chain[i])}
    IN  IF roots = {} THEN 0 ELSE CHOOSE i \in roots : \A j \in roots : j <= i

\* the filters text of the predicate calls one write holds, from its root on
WriteFilters(write) ==
    LET from == IF TypedRootOf(write.chain) = 0 THEN 1 ELSE TypedRootOf(write.chain)
        calls == SelectSeq(SubSeq(write.chain, from, Len(write.chain)),
                           IsPredicateCall)
    IN  Join([i \in 1..Len(calls) |-> FilterTextOf(calls[i])], <<",", " ">>)

\* the write is a call chain with a root that names its collection
WriteResolves(write) ==
    /\ write.type = "CallExpression"
    /\ TypedRootOf(write.chain) # 0
    /\ LET root == write.chain[TypedRootOf(write.chain)]
       IN  root.method \in {S_collection, S_collectionGroup}
           => root.arguments[1].type = "Literal"

-----------------------------------------------------------------------------
(* Directions and __name__: one terminal call on users against a manifest  *)
(* with one users index whose fields carry an order or an arrayConfig.      *)

S_asc == <<"a","s","c">>
OrderByAsc(f) == MemberCall(S_orderBy, <<Literal(f), Literal(S_asc)>>)
OrderedIndexField(fieldPath, order) ==
    [fieldPath |-> fieldPath, order |-> order, arrayConfig |-> "undefined"]

DirectionFieldSpecs ==
    {OrderedIndexField(S_a, "ASCENDING"), OrderedIndexField(S_a, "DESCENDING"),
     OrderedIndexField(S_b, "ASCENDING"), IndexField(S_a, "CONTAINS"),
     OrderedIndexField(S_name, "ASCENDING")}

DirectionManifestFiles ==
    {ManifestFile(<<Index(S_users, Undefined, fl)>>) :
        fl \in SeqsUpTo(DirectionFieldSpecs, MaxIndexFields)}

DirectionCalls ==
    {Where(S_a, S_eq), Where(S_b, S_lt), Where(S_a, S_arrayContains),
     OrderBy(S_a), OrderByDesc(S_a), OrderByAsc(S_b), OrderByDesc(S_b),
     OrderBy(S_name)}

DirectionNodes ==
    {<<Users>> \o calls \o <<Get>> : calls \in SeqsUpTo(DirectionCalls, MaxPreds)}

InitDirection ==
    /\ indexFile \in DirectionManifestFiles
    /\ indexes = loadIndexes(indexFile)
    /\ file \in {<<n>> : n \in DirectionNodes}
    /\ pos = 0
    /\ reportedQueries = {}
    /\ reports = createReports(indexFile)
    /\ trace = <<>>
    /\ passes = <<>>

SpecDirection == InitDirection /\ [][CallExpression]_vars

IsNameEntry(f) == f.fieldPath = S_name
\* the index with its __name__ entries taken out
WithoutNameEntries(index) ==
    [index EXCEPT !.fields = SelectSeq(index.fields, LAMBDA f : ~IsNameEntry(f))]
\* the index with a __name__ entry put in after position p
WithNameEntryAt(index, p) ==
    [index EXCEPT !.fields =
        SubSeq(index.fields, 1, p)
            \o <<OrderedIndexField(S_name, "ASCENDING")>>
            \o SubSeq(index.fields, p + 1, Len(index.fields))]

\* C26: for the shape of every terminal call and every declared index, the
\* composite match gives the same result for the index, for the index with
\* its __name__ entries removed, and for the index with a __name__ entry
\* added at any position.
C26_NameEntriesIgnored ==
    \A t \in Visited :
        t.terminal =>
            \A k \in 1..Len(indexes.indexes) :
                LET index == indexes.indexes[k]
                    result == indexMatches(index, t.collection, t.queryFields)
                IN  /\ indexMatches(WithoutNameEntries(index), t.collection,
                                    t.queryFields) = result
                    /\ \A p \in 0..Len(index.fields) :
                          indexMatches(WithNameEntryAt(index, p), t.collection,
                                       t.queryFields) = result

\* a checked shape that cannot merge, satisfied by an index that lists
\* __name__ before its other fields
C26_Witness ==
    \E t \in Visited :
        /\ t.matcherCalled
        /\ ~PassesMerging(t)
        /\ ~t.reported
        /\ Len(indexes.indexes[1].fields) >= 2
        /\ IsNameEntry(indexes.indexes[1].fields[1])
        /\ ~IsNameEntry(indexes.indexes[1].fields[2])

\* the chain with the direction argument of call i set to dir, or removed
WithDirection(chain, i, dir) ==
    [chain EXCEPT ![i].arguments =
        IF dir = "absent" THEN <<chain[i].arguments[1]>>
        ELSE <<chain[i].arguments[1], Literal(dir)>>]
\* the index with the order of field j set to order
WithOrder(index, j, order) == [index EXCEPT !.fields[j].order = order]

\* C29: replacing the direction of any orderBy call of the chain by 'asc',
\* 'desc' or none changes neither the composite match against any declared
\* index, nor merging eligibility, nor the deduplication key; replacing the
\* order of any field of a declared index by ASCENDING or DESCENDING does not
\* change the composite match.
C29_DirectionNeverMatters ==
    \A t \in Visited :
        t.terminal =>
            LET chain == ReceiverOf(t.node)
            IN  /\ \A i \in 1..Len(chain) : \A dir \in {"absent", S_asc, S_desc} :
                      chain[i].method = S_orderBy =>
                        LET other == analyzeCallChain(WithDirection(chain, i, dir))
                        IN  /\ other.collection = t.collection
                            /\ canUseIndexMerging(other.queryFields)
                                 = canUseIndexMerging(t.queryFields)
                            /\ queryKeyOf(other.collection, other.queryFields)
                                 = queryKeyOf(t.collection, t.queryFields)
                            /\ \A k \in 1..Len(indexes.indexes) :
                                  indexMatches(indexes.indexes[k], other.collection,
                                               other.queryFields)
                                    = indexMatches(indexes.indexes[k], t.collection,
                                                   t.queryFields)
                /\ \A k \in 1..Len(indexes.indexes) :
                      \A j \in 1..Len(indexes.indexes[k].fields) :
                          \A order \in {"ASCENDING", "DESCENDING"} :
                              indexMatches(WithOrder(indexes.indexes[k], j, order),
                                           t.collection, t.queryFields)
                                = indexMatches(indexes.indexes[k], t.collection,
                                               t.queryFields)

\* where('b','<',x).orderBy('a','desc') is checked, cannot merge, and is
\* satisfied by an index that lists a as ASCENDING
C29_Witness ==
    \E t \in Visited :
        /\ t.matcherCalled
        /\ ~PassesMerging(t)
        /\ ~t.reported
        /\ \E i \in 1..Len(t.queryFields) :
              /\ t.queryFields[i].order = "DESCENDING"
              /\ \E j \in 1..Len(indexes.indexes[1].fields) :
                    /\ indexes.indexes[1].fields[j].fieldPath = t.queryFields[i].field
                    /\ indexes.indexes[1].fields[j].order = "ASCENDING"

\* the iterations of the backward walk for the chain, counted up to one more
\* than the chain has calls
IterationsOf(chain) == walkIterations(chain, Len(chain), Len(chain) + 1)

StepKeepsKeys ==
    /\ indexFile' = indexFile
    /\ indexes' = indexes
    /\ pos' = pos + 1 =>
          LET t == trace'[pos']
          IN  /\ reportedQueries \subseteq reportedQueries'
              /\ IF Len(reports') = Len(reports) + 1
                 THEN /\ t.queryKey \notin reportedQueries
                      /\ reportedQueries' = reportedQueries \cup {t.queryKey}
                      /\ reports'[Len(reports')].node = t.node
                 ELSE /\ reportedQueries' = reportedQueries
                      /\ reports' = reports
              /\ (~t.checked \/ hasIndex(t.collection, t.queryFields))
                    => reportedQueries' = reportedQueries

\* C28: in every state of a pass the deduplication set is the set of keys of
\* the diagnostics emitted so far in the pass; a step that visits a call site
\* adds a key only together with a diagnostic, the key of that diagnostic,
\* adds none for a shape that is satisfied, below the threshold or unresolved,
\* and removes none; no step changes the manifest.
C28_DedupSetTracksDiagnostics ==
    [](reportedQueries = KeysReported) /\ [][StepKeepsKeys]_vars

\* a pass with a diagnostic for its first call site and none for a later,
\* satisfied one: one key in the set
C28_Witness ==
    /\ Len(trace) >= 2
    /\ trace[1].reported
    /\ \E i \in 2..Len(trace) :
          /\ trace[i].matcherCalled
          /\ ~trace[i].reported
    /\ Cardinality(reportedQueries) = 1

\* the manifest file parses and holds no `indexes` list
ParsesWithoutIndexList ==
    /\ indexFile.exists /\ indexFile.readable /\ indexFile.parses
    /\ ~HoldsIndexList

\* C30: with a manifest file that parses and holds no `indexes` list, a
\* checked shape that is eligible for index merging is not reported, as with
\* an empty index list.
C30_NoIndexListStillMerges ==
    \A t \in Visited :
        (t.matcherCalled /\ ParsesWithoutIndexList /\ PassesMerging(t))
        => ~t.reported

====
